---- MODULE Spec2Model ----
(***************************************************************************)
(* A model of the support-report pipeline: the time window filter, the bot *)
(* partitioner and the counting operations of TicketProcessor              *)
(* (src/processor/processor.py), the cleaning steps of DataFrameCleaner    *)
(* (src/cleaner/cleaner.py) and the file loop process_csv_files_in_folder  *)
(* (src/main.py).                                                          *)
(*                                                                         *)
(* A DataFrame is a record [columns, rows]: the set of its column names    *)
(* and the sequence of its rows; a row carries its index label (id), which *)
(* boolean indexing keeps.  A call that can raise returns a record         *)
(* [exc, val]: exc is "none" or the name of the exception raised.          *)
(***************************************************************************)
EXTENDS Integers, Sequences, FiniteSets, TLC

VARIABLES
  input,    \* the arguments of the operation under check, as the caller holds them
  output    \* the value each operation called so far returned, by operation name

hvars == <<input, output>>

VARIABLES
  folder,                \* os.listdir(input_folder): the kind of each entry
  file_index,            \* the entry the file loop is at
  pc,                    \* where process_csv_files_in_folder is
  exc,                   \* the exception that ended the run, and the step it left
  now,                   \* the clock pd.to_datetime('today') reads
  raw,                   \* the file as pd.read_csv returned it
  main_df,               \* df, which is main_df: the cleaned record set
  current_week_df,
  bot_name_list,
  splitted_df_dict,
  splitted_df_key_list,
  tables,                \* the count tables computed so far, by variable name
  last_archive_df,
  splitted_df_dict_last,
  steps,                 \* the steps each file went through, in order
  reports,               \* the files whose report was saved
  archive                \* the files moved to data/archive

locals == <<raw, main_df, current_week_df, bot_name_list, splitted_df_dict,
            splitted_df_key_list, tables, last_archive_df, splitted_df_dict_last>>

pvars == <<folder, file_index, pc, exc, now, locals, steps, reports, archive>>

vars == <<hvars, pvars>>

\* ------------------------------------------------------------------ bounds
MaxRows == 2        \* rows of an input record set
MaxList == 2        \* length of a key list / value list given to an operation
TicksPerDay == 2    \* clock resolution: instants per day
MaxTicks == 1       \* clock advances during one pipeline run
NumFiles == 2       \* directory entries of the input folder

\* ------------------------------------------------------- program constants
WindowDays == 8
NaT == -1
Unparseable == -2
CreateExcelArity == 4
CreateExcelArgs == 3

\* --------------------------------------------------------------- data model
BotCol == "Bot Name"
ModeCol == "Mode"
StatusCol == "Status"
DateCol == "Ticket Creation Date"
CreatedCol == "Created Time"

NoExc == "none"
Ok(v) == [exc |-> NoExc, val |-> v]
Raise(e) == [exc |-> e, val |-> <<>>]

EmptyDataFrame == [columns |-> {}, rows |-> <<>>]

Range(s) == {s[i] : i \in DOMAIN s}

Ids(df) == {df.rows[i].id : i \in DOMAIN df.rows}

\* df[mask]: the rows for which Keep holds, in input order, columns kept
Select(df, Keep(_)) == [columns |-> df.columns, rows |-> SelectSeq(df.rows, Keep)]

\* (series == value).sum()
CountWhere(df, P(_)) == Cardinality({i \in DOMAIN df.rows : P(df.rows[i])})

\* ------------------------------------------------------- time window filter
Today == WindowDays + 2

Midnight(day) == day * TicksPerDay

\* pd.to_datetime(value, errors='coerce')
ToDatetime(v) == IF v = Unparseable THEN NaT ELSE v

\* pd.to_datetime(column, errors='coerce'), assigned back to the column
CoerceDates(df) ==
  [df EXCEPT !.rows = [i \in DOMAIN df.rows |->
                         [df.rows[i] EXCEPT !.date = ToDatetime(df.rows[i].date)]]]

Cutoff(current_date) == current_date - WindowDays * TicksPerDay

\* date >= cutoff: a comparison with NaT is False
DateGe(d, c) == d # NaT /\ d >= c

\* date < cutoff: a comparison with NaT is False
DateLt(d, c) == d # NaT /\ d < c

\* The mutant of filter_last_8_days: '>' for '>='.
FilterLast8DaysStrict(df, current_date) ==
  IF DateCol \notin df.columns
  THEN [df |-> df, ret |-> EmptyDataFrame]
  ELSE LET d == CoerceDates(df)
           Keep(r) == DateGe(r.date, Cutoff(current_date) + 1)
       IN [df |-> d, ret |-> Select(d, Keep)]

\* filter_last_8_days: the caller's frame after the call (its date column
\* coerced in place) and the returned frame
FilterLast8Days(df, current_date) ==
  IF DateCol \notin df.columns
  THEN [df |-> df, ret |-> EmptyDataFrame]
  ELSE LET d == CoerceDates(df)
           Keep(r) == DateGe(r.date, Cutoff(current_date))
       IN [df |-> d, ret |-> Select(d, Keep)]

\* The mutant of filter_before_last_8_days: '<=' for '<'.
FilterBeforeLast8DaysInclusive(df, current_date) ==
  IF DateCol \notin df.columns
  THEN [df |-> df, ret |-> EmptyDataFrame]
  ELSE LET d == CoerceDates(df)
           Keep(r) == DateLt(r.date, Cutoff(current_date) + 1)
       IN [df |-> d, ret |-> Select(d, Keep)]

\* filter_before_last_8_days
FilterBeforeLast8Days(df, current_date) ==
  IF DateCol \notin df.columns
  THEN [df |-> df, ret |-> EmptyDataFrame]
  ELSE LET d == CoerceDates(df)
           Keep(r) == DateLt(r.date, Cutoff(current_date))
       IN [df |-> d, ret |-> Select(d, Keep)]

\* ----------------------------------------------------------- bot partitioner
RECURSIVE Unique(_)
\* the distinct elements of a sequence in order of first appearance: the key
\* order of a dict built from it, and Series.unique()
Unique(s) ==
  IF s = <<>> THEN <<>>
  ELSE LET init == Unique(SubSeq(s, 1, Len(s) - 1))
           x == s[Len(s)]
       IN IF x \in Range(init) THEN init ELSE Append(init, x)

\* a dict: its keys in insertion order and its items
Dict(order, items) == [kind |-> "dict", order |-> order, items |-> items]

\* the value of 'return {}, []': a tuple of an empty dict and an empty list
EmptyDictAndList == [kind |-> "tuple", order |-> <<>>, items |-> <<>>]

\* len(value)
PyLen(v) == IF v.kind = "dict" THEN Cardinality(DOMAIN v.items) ELSE 2

\* key in value: a tuple ({}, []) holds no string
Contains(v, key) == v.kind = "dict" /\ key \in DOMAIN v.items

\* list(value.keys()): a tuple has no keys()
KeyList(v) == IF v.kind = "dict" THEN Ok(v.order) ELSE Raise("AttributeError")

\* The mutant of split_dataframe_by_bot_name: each partition holds the rows
\* of the other bots.
SplitOtherBots(df, bot_names) ==
  IF BotCol \notin df.columns
  THEN EmptyDictAndList
  ELSE Dict(Unique(bot_names),
            [bot \in Range(bot_names) |-> Select(df, LAMBDA r : r.bot # bot)])

\* split_dataframe_by_bot_name
SplitDataframeByBotName(df, bot_names) ==
  IF BotCol \notin df.columns
  THEN EmptyDictAndList
  ELSE Dict(Unique(bot_names),
            [bot \in Range(bot_names) |-> Select(df, LAMBDA r : r.bot = bot)])

\* ------------------------------------------------------------ counting engine
\* row[column] for the text columns
Cell(r, column) ==
  CASE column = BotCol -> r.bot
    [] column = ModeCol -> r.mode
    [] column = StatusCol -> r.status

\* d[k] = v on a dict held as a function
Put(d, k, v) == (k :> v) @@ d

\* f"{key}_{value}"
FlatKey(key, value) == key \o "_" \o value

\* f'total_{status_value}_ticket_{key}_{value}'
StatusKey(status_value, key, value) ==
  "total_" \o status_value \o "_ticket_" \o key \o "_" \o value

RECURSIVE CountValues(_, _, _, _, _)
\* total_ticket_received_count, the loop over comparison_values
CountValues(acc, df, key, values, column_name) ==
  IF values = <<>> THEN acc
  ELSE LET value == Head(values)
           count == CountWhere(df, LAMBDA r : Cell(r, column_name) = value)
       IN CountValues(Put(acc, FlatKey(key, value), count),
                      df, key, Tail(values), column_name)

RECURSIVE ReceivedLoop(_, _, _, _, _)
\* total_ticket_received_count, the loop over splitted_df_key_list
ReceivedLoop(acc, d, keys, values, column_name) ==
  IF keys = <<>> THEN acc
  ELSE LET key == Head(keys)
           next == IF ~Contains(d, key) THEN acc
                   ELSE IF column_name \notin d.items[key].columns THEN acc
                   ELSE CountValues(acc, d.items[key], key, values, column_name)
       IN ReceivedLoop(next, d, Tail(keys), values, column_name)

\* total_ticket_received_count
TotalTicketReceivedCount(d, keys, values, column_name) ==
  Ok(ReceivedLoop(<<>>, d, keys, values, column_name))

RECURSIVE StatusModeValues(_, _, _, _, _)
\* count_tickets_for_unique_modes, the loop over mode_list: filtered_df['Mode']
\* raises KeyError when the column is absent
StatusModeValues(acc, filtered_df, key, mode_list, status_value) ==
  IF mode_list = <<>> THEN Ok(acc)
  ELSE IF ModeCol \notin filtered_df.columns THEN Raise("KeyError")
  ELSE LET value == Head(mode_list)
           count == CountWhere(filtered_df, LAMBDA r : r.mode = value)
       IN StatusModeValues(Put(acc, StatusKey(status_value, key, value), count),
                           filtered_df, key, Tail(mode_list), status_value)

RECURSIVE UniqueModesLoop(_, _, _, _, _, _)
\* count_tickets_for_unique_modes, the loop over splitted_df_key_list:
\* df[status_column] raises KeyError when the column is absent
UniqueModesLoop(acc, d, keys, mode_list, status_column, status_value) ==
  IF keys = <<>> THEN Ok(acc)
  ELSE LET key == Head(keys) IN
       IF ~Contains(d, key)
       THEN UniqueModesLoop(acc, d, Tail(keys), mode_list, status_column, status_value)
       ELSE IF status_column \notin d.items[key].columns THEN Raise("KeyError")
       ELSE LET filtered_df == Select(d.items[key],
                                      LAMBDA r : Cell(r, status_column) = status_value)
                inner == StatusModeValues(acc, filtered_df, key, mode_list, status_value)
            IN IF inner.exc # NoExc THEN inner
               ELSE UniqueModesLoop(inner.val, d, Tail(keys), mode_list,
                                    status_column, status_value)

\* count_tickets_for_unique_modes
CountTicketsForUniqueModes(d, keys, mode_list, status_column, status_value) ==
  UniqueModesLoop(<<>>, d, keys, mode_list, status_column, status_value)

RECURSIVE ModewiseValues(_, _, _, _, _)
\* total_ticket_received_count_modewise, the loop over comparison_values
ModewiseValues(acc, df, key, values, column_name) ==
  IF values = <<>> THEN acc
  ELSE LET value == Head(values)
           count == CountWhere(df, LAMBDA r : Cell(r, column_name) = value)
       IN ModewiseValues([acc EXCEPT ![value] = Put(@, key, count)],
                         df, key, Tail(values), column_name)

RECURSIVE ModewiseLoop(_, _, _, _, _)
\* total_ticket_received_count_modewise, the loop over splitted_df_key_list:
\* splitted_df_dict.keys() raises AttributeError on a tuple
ModewiseLoop(acc, d, keys, values, column_name) ==
  IF keys = <<>> THEN Ok(acc)
  ELSE IF d.kind # "dict" THEN Raise("AttributeError")
  ELSE LET key == Head(keys)
           next == IF key \notin DOMAIN d.items THEN acc
                   ELSE IF column_name \notin d.items[key].columns THEN acc
                   ELSE ModewiseValues(acc, d.items[key], key, values, column_name)
       IN ModewiseLoop(next, d, Tail(keys), values, column_name)

\* total_ticket_received_count_modewise
TotalTicketReceivedCountModewise(d, keys, values, column_name) ==
  ModewiseLoop([value \in Range(values) |-> <<>>], d, keys, values, column_name)

RECURSIVE SumModes(_, _)
\* sum((filtered_df['Mode'] == mode).sum() for mode in mode_list)
SumModes(filtered_df, mode_list) ==
  IF mode_list = <<>> THEN Ok(0)
  ELSE IF ModeCol \notin filtered_df.columns THEN Raise("KeyError")
  ELSE LET rest == SumModes(filtered_df, Tail(mode_list))
       IN Ok(CountWhere(filtered_df, LAMBDA r : r.mode = Head(mode_list)) + rest.val)

RECURSIVE BotWiseLoop(_, _, _, _, _, _)
\* count_bot_wise_status_tickets, the loop over splitted_df_key_list
BotWiseLoop(acc, d, keys, mode_list, status_column, status_value) ==
  IF keys = <<>> THEN Ok(acc)
  ELSE LET key == Head(keys) IN
       IF ~Contains(d, key)
       THEN BotWiseLoop(acc, d, Tail(keys), mode_list, status_column, status_value)
       ELSE IF status_column \notin d.items[key].columns THEN Raise("KeyError")
       ELSE LET filtered_df == Select(d.items[key],
                                      LAMBDA r : Cell(r, status_column) = status_value)
                total_count == SumModes(filtered_df, mode_list)
            IN IF total_count.exc # NoExc THEN total_count
               ELSE BotWiseLoop(Put(acc, key, total_count.val), d, Tail(keys),
                                mode_list, status_column, status_value)

\* count_bot_wise_status_tickets
CountBotWiseStatusTickets(d, keys, mode_list, status_column, status_value) ==
  BotWiseLoop(<<>>, d, keys, mode_list, status_column, status_value)

\* value.lower().strip() on the strings of the model
LowerStrip(s) ==
  CASE s = "Email" -> "email"
    [] s = "IT_Email" -> "it_email"
    [] s = "Closed" -> "closed"
    [] s = "Open" -> "open"
    [] s = "On Hold" -> "on hold"
    [] s = "HR" -> "hr"
    [] s = "HR_IT" -> "hr_it"
    [] s = "Unidentified Bot Name" -> "unidentified bot name"
    [] OTHER -> s

\* df.loc[:, column_name] = df[column_name].str.lower().str.strip()
LowerColumn(df, column_name) ==
  [df EXCEPT !.rows = [i \in DOMAIN df.rows |->
    CASE column_name = BotCol -> [df.rows[i] EXCEPT !.bot = LowerStrip(@)]
      [] column_name = ModeCol -> [df.rows[i] EXCEPT !.mode = LowerStrip(@)]
      [] column_name = StatusCol -> [df.rows[i] EXCEPT !.status = LowerStrip(@)]]]

RECURSIVE ProblemValues(_, _, _, _, _)
\* problem_reported_count_botwise, the loop over comparison_values
ProblemValues(acc, df, bot_key, values, column_name) ==
  IF values = <<>> THEN acc
  ELSE LET value == Head(values)
           cleaned_value == LowerStrip(value)
           count == CountWhere(df, LAMBDA r : Cell(r, column_name) = cleaned_value)
       IN ProblemValues([acc EXCEPT ![value] = Put(@, bot_key, count)],
                        df, bot_key, Tail(values), column_name)

RECURSIVE ProblemLoop(_, _, _, _, _)
\* problem_reported_count_botwise, the loop over splitted_df_key_list: the
\* warning of the missing-column branch reads the undefined name 'key'
\* (NameError); each partition visited has its column lower-cased in place
ProblemLoop(acc, d, keys, values, column_name) ==
  IF keys = <<>> THEN [exc |-> NoExc, val |-> acc, dict |-> d]
  ELSE IF d.kind # "dict" THEN [exc |-> "AttributeError", val |-> <<>>, dict |-> d]
  ELSE LET bot_key == Head(keys) IN
       IF bot_key \notin DOMAIN d.items
       THEN ProblemLoop(acc, d, Tail(keys), values, column_name)
       ELSE IF column_name \notin d.items[bot_key].columns
       THEN [exc |-> "NameError", val |-> <<>>, dict |-> d]
       ELSE LET df == LowerColumn(d.items[bot_key], column_name)
                d2 == [d EXCEPT !.items[bot_key] = df]
            IN ProblemLoop(ProblemValues(acc, df, bot_key, values, column_name),
                           d2, Tail(keys), values, column_name)

\* problem_reported_count_botwise: the outcome and the partition map after it
ProblemReportedCountBotwise(d, keys, values, column_name) ==
  ProblemLoop([value \in Range(values) |-> <<>>], d, keys, values, column_name)

\* ---------------------------------------------------------------- file loop
None == <<>>

\* the file loop before it starts, and as it stays while single operations
\* are called
PipelineIdle ==
  /\ folder = <<>> /\ file_index = 1 /\ pc = "idle" /\ exc = None /\ now = Midnight(Today)
  /\ raw = None /\ main_df = None /\ current_week_df = None /\ bot_name_list = None
  /\ splitted_df_dict = None /\ splitted_df_key_list = None /\ tables = <<>>
  /\ last_archive_df = None /\ splitted_df_dict_last = None
  /\ steps = <<>> /\ reports = {} /\ archive = {}

HarnessIdle == input = None /\ output = <<>>

\* ------------------------------------------------------------------- inputs
Bots == {"HR", "HR_IT"}
Modes == {"Email", "IT_Email"}
Statuses == {"Closed", "Open"}

SeqsUpTo(S, n) == UNION {[1..k -> S] : k \in 0..n}

\* the record sets of at most MaxRows rows over the given cell values, under
\* the default index 1..n
Frames(columns, bots, modes, statuses, dates) ==
  LET Cells == [bot : bots, mode : modes, status : statuses, date : dates]
  IN {[columns |-> columns,
       rows |-> [i \in DOMAIN c |->
                   [id |-> i, bot |-> c[i].bot, mode |-> c[i].mode,
                    status |-> c[i].status, date |-> c[i].date]]] :
        c \in SeqsUpTo(Cells, MaxRows)}

AllColumns == {BotCol, ModeCol, StatusCol, DateCol}

Called(name) == name \in DOMAIN output

Return(name, value) == output' = (name :> value) @@ output

\* -------------------------------------------- the time window filter, called
EdgeDay == Today - WindowDays

\* dates on both sides of the cutoff and at it, a date 14 days before today
\* (ticks are counted from an arbitrary day 0), a missing date, a bad string
FilterDates ==
  {Midnight(Today - 14), Midnight(EdgeDay - 1), Midnight(EdgeDay), Midnight(EdgeDay + 1),
   NaT, Unparseable}

RefDates == {Midnight(Today) + t : t \in 0..(TicksPerDay - 1)}

InitFilter ==
  /\ input \in [df : UNION {Frames(cols, {"HR"}, {"Email"}, {"Open"}, FilterDates) :
                             cols \in {AllColumns, AllColumns \ {DateCol}}},
                current_date : RefDates]
  /\ output = <<>>
  /\ PipelineIdle

CallFilterLast8Days ==
  /\ ~Called("filter_last_8_days")
  /\ LET r == FilterLast8Days(input.df, input.current_date)
     IN /\ input' = [input EXCEPT !.df = r.df]
        /\ Return("filter_last_8_days", r.ret)
  /\ UNCHANGED pvars

CallFilterBeforeLast8Days ==
  /\ ~Called("filter_before_last_8_days")
  /\ LET r == FilterBeforeLast8Days(input.df, input.current_date)
     IN /\ input' = [input EXCEPT !.df = r.df]
        /\ Return("filter_before_last_8_days", r.ret)
  /\ UNCHANGED pvars

NextFilter == CallFilterLast8Days \/ CallFilterBeforeLast8Days

SpecFilter == InitFilter /\ [][NextFilter]_vars

\* rows whose date is unparseable: coerced to NaT
NullDateIds(df) == {df.rows[i].id : i \in {j \in DOMAIN df.rows : ToDatetime(df.rows[j].date) = NaT}}

NoRepeat(df) == Cardinality(Ids(df)) = Len(df.rows)

BothFiltersCalled ==
  /\ Called("filter_last_8_days")
  /\ Called("filter_before_last_8_days")
  /\ DateCol \in input.df.columns

\* C1: for a fixed reference date, the rows of recent, the rows of archive and
\* the rows with an unparseable date together are all rows of R, and no row
\* is in two of the three sets (nor twice in one).
ThmC1_WindowPartition ==
  BothFiltersCalled =>
    LET recent_df == output["filter_last_8_days"]
        archive_df == output["filter_before_last_8_days"]
        nulls == NullDateIds(input.df)
    IN /\ Ids(recent_df) \cup Ids(archive_df) \cup nulls = Ids(input.df)
       /\ Ids(recent_df) \cap Ids(archive_df) = {}
       /\ Ids(recent_df) \cap nulls = {}
       /\ Ids(archive_df) \cap nulls = {}
       /\ NoRepeat(recent_df) /\ NoRepeat(archive_df)

\* C1 witness: a record set with a row at the cutoff kept as recent and a row
\* with an unparseable date in neither result.
WitC1_WindowPartition ==
  /\ BothFiltersCalled
  /\ \E i \in DOMAIN input.df.rows :
       /\ input.df.rows[i].date = Cutoff(input.current_date)
       /\ input.df.rows[i].id \in Ids(output["filter_last_8_days"])
  /\ NullDateIds(input.df) # {}

\* the rows of the caller's frame whose date parsed
ParseableRows == {r \in Range(input.df.rows) : ToDatetime(r.date) # NaT}

\* the time from the row's date to the reference date, in ticks
Age(r) == input.current_date - ToDatetime(r.date)

\* C14: a row with a parseable date is in recent exactly when its date is not
\* more than 8 days before the reference date (a row exactly at the cutoff is
\* recent), and in archive exactly when its date is more than 8 days before it.
ThmC14_CutoffBoundary ==
  /\ (Called("filter_last_8_days") /\ DateCol \in input.df.columns) =>
       \A r \in ParseableRows :
         r.id \in Ids(output["filter_last_8_days"]) <=> Age(r) <= WindowDays * TicksPerDay
  /\ (Called("filter_before_last_8_days") /\ DateCol \in input.df.columns) =>
       \A r \in ParseableRows :
         r.id \in Ids(output["filter_before_last_8_days"]) <=> Age(r) > WindowDays * TicksPerDay

\* C14 witness: both filters ran on a record set with a row dated exactly 8
\* days before the reference date, kept as recent, and a row dated 14 days
\* before it, kept as archive.
WitC14_CutoffBoundary ==
  /\ BothFiltersCalled
  /\ \E r \in ParseableRows :
       /\ Age(r) = WindowDays * TicksPerDay
       /\ r.id \in Ids(output["filter_last_8_days"])
  /\ \E r \in ParseableRows :
       /\ Age(r) = 14 * TicksPerDay
       /\ r.id \in Ids(output["filter_before_last_8_days"])

\* ------------------------------------------------- the bot partitioner, called
KeyLists == SeqsUpTo(Bots, MaxList)

InitSplit ==
  /\ input \in [df : UNION {Frames(cols, Bots, {"Email"}, {"Open"}, {NaT}) :
                             cols \in {AllColumns, AllColumns \ {BotCol}}},
                bot_name_list : KeyLists]
  /\ output = <<>>
  /\ PipelineIdle

CallSplitDataframeByBotName ==
  /\ ~Called("split_dataframe_by_bot_name")
  /\ Return("split_dataframe_by_bot_name",
            SplitDataframeByBotName(input.df, input.bot_name_list))
  /\ UNCHANGED <<input, pvars>>

NextSplit == CallSplitDataframeByBotName

SpecSplit == InitSplit /\ [][NextSplit]_vars

SplitCalled == Called("split_dataframe_by_bot_name") /\ BotCol \in input.df.columns

\* each row of R is in the entry keyed by its bot value and in no other one,
\* and in no entry at all when its bot value is not in K
RowsPartitioned(df, K, parts) ==
  \A i \in DOMAIN df.rows :
    LET r == df.rows[i]
    IN \A k \in DOMAIN parts.items :
         (r.id \in Ids(parts.items[k])) <=> (k = r.bot /\ r.bot \in Range(K))

\* C2 as claimed: the map has exactly len(K) entries, also for a K with
\* repeated keys, and the rows are partitioned by bot value.
OrigC2_SplitHasLenKEntries ==
  SplitCalled =>
    LET parts == output["split_dataframe_by_bot_name"]
    IN /\ parts.kind = "dict"
       /\ PyLen(parts) = Len(input.bot_name_list)
       /\ RowsPartitioned(input.df, input.bot_name_list, parts)

\* C2, amended: the map has exactly one entry per distinct key of K (len(K)
\* entries when K has no repeated key); every row whose bot value is in K is
\* in exactly the entry keyed by it, every other row in no entry.
ThmC2_SplitOneEntryPerDistinctKey ==
  SplitCalled =>
    LET parts == output["split_dataframe_by_bot_name"]
        K == input.bot_name_list
    IN /\ parts.kind = "dict"
       /\ DOMAIN parts.items = Range(K)
       /\ PyLen(parts) = Cardinality(Range(K))
       /\ \A k \in Range(K) : NoRepeat(parts.items[k])
       /\ RowsPartitioned(input.df, K, parts)

\* C2 witness: a key list with a repeated key, a row of that key and a row of
\* a bot that is not in the list.
WitC2_SplitOneEntryPerDistinctKey ==
  /\ SplitCalled
  /\ Cardinality(Range(input.bot_name_list)) < Len(input.bot_name_list)
  /\ \E i, j \in DOMAIN input.df.rows :
       /\ input.df.rows[i].bot \in Range(input.bot_name_list)
       /\ input.df.rows[j].bot \notin Range(input.bot_name_list)

\* C8 as claimed: without the bot-identity column the operation returns an
\* empty map, whose key list can be taken as for a successful result.
OrigC8_SplitReturnsEmptyMap ==
  (Called("split_dataframe_by_bot_name") /\ BotCol \notin input.df.columns) =>
    LET parts == output["split_dataframe_by_bot_name"]
    IN /\ parts.kind = "dict"
       /\ PyLen(parts) = 0
       /\ KeyList(parts).exc = NoExc

\* ------------------------------------------------- the counting engine, called
DistinctSeqs(S, n) == {s \in SeqsUpTo(S, n) : Cardinality(Range(s)) = Len(s)}

\* partition maps: a record set split by a list of distinct keys; the record
\* set may lack the 'Mode' or the 'Status' column
PartitionMaps ==
  UNION {{SplitDataframeByBotName(df, order) :
            df \in Frames(cols, Bots, Modes, Statuses, {NaT}),
            order \in DistinctSeqs(Bots, Cardinality(Bots))} :
         cols \in {AllColumns, AllColumns \ {ModeCol}, AllColumns \ {StatusCol}}}

ModeLists == SeqsUpTo(Modes, MaxList)

InitCount ==
  /\ input \in [dict : PartitionMaps, keys : KeyLists, values : ModeLists,
                status_value : {"Closed"}]
  /\ output = <<>>
  /\ PipelineIdle

CallTotalTicketReceivedCount ==
  /\ output = <<>>
  /\ Return("total_ticket_received_count",
            TotalTicketReceivedCount(input.dict, input.keys, input.values, ModeCol))
  /\ UNCHANGED <<input, pvars>>

CallCountTicketsForUniqueModes ==
  /\ output = <<>>
  /\ Return("count_tickets_for_unique_modes",
            CountTicketsForUniqueModes(input.dict, input.keys, input.values,
                                       StatusCol, input.status_value))
  /\ UNCHANGED <<input, pvars>>

\* may follow total_ticket_received_count on the same arguments, as in main.py
CallTotalTicketReceivedCountModewise ==
  /\ DOMAIN output \subseteq {"total_ticket_received_count"}
  /\ Return("total_ticket_received_count_modewise",
            TotalTicketReceivedCountModewise(input.dict, input.keys, input.values,
                                             ModeCol))
  /\ UNCHANGED <<input, pvars>>

CallCountBotWiseStatusTickets ==
  /\ output = <<>>
  /\ Return("count_bot_wise_status_tickets",
            CountBotWiseStatusTickets(input.dict, input.keys, input.values,
                                      StatusCol, input.status_value))
  /\ UNCHANGED <<input, pvars>>

CallProblemReportedCountBotwise ==
  /\ output = <<>>
  /\ LET r == ProblemReportedCountBotwise(input.dict, input.keys, input.values, ModeCol)
     IN /\ Return("problem_reported_count_botwise", [exc |-> r.exc, val |-> r.val])
        /\ input' = [input EXCEPT !.dict = r.dict]
  /\ UNCHANGED pvars

NextCount ==
  \/ CallTotalTicketReceivedCount
  \/ CallCountTicketsForUniqueModes
  \/ CallTotalTicketReceivedCountModewise
  \/ CallCountBotWiseStatusTickets
  \/ CallProblemReportedCountBotwise

SpecCount == InitCount /\ [][NextCount]_vars

\* the rows of key's partition that match: none when the key has no partition
Matching(d, key, P(_)) ==
  IF Contains(d, key) THEN CountWhere(d.items[key], P) ELSE 0

\* a requested entry is present, a non-negative integer, and 0 when no row matches
PresentZeroFilled(table, k, matching) ==
  /\ k \in DOMAIN table
  /\ table[k] \in Nat
  /\ (matching = 0 => table[k] = 0)

Returned(name) == Called(name) /\ output[name].exc = NoExc

\* C3 as claimed: in the table each of the four counting operations returns,
\* every requested (key, value) combination (every requested key, for the
\* per-bot total) is present, with 0 when no row matches.
OrigC3_RequestedNeverAbsent ==
  /\ Returned("total_ticket_received_count") =>
       \A key \in Range(input.keys), value \in Range(input.values) :
         PresentZeroFilled(output["total_ticket_received_count"].val,
                           FlatKey(key, value),
                           Matching(input.dict, key, LAMBDA r : r.mode = value))
  /\ Returned("count_tickets_for_unique_modes") =>
       \A key \in Range(input.keys), value \in Range(input.values) :
         PresentZeroFilled(output["count_tickets_for_unique_modes"].val,
                           StatusKey(input.status_value, key, value),
                           Matching(input.dict, key,
                                    LAMBDA r : r.status = input.status_value
                                               /\ r.mode = value))
  /\ Returned("total_ticket_received_count_modewise") =>
       \A key \in Range(input.keys), value \in Range(input.values) :
         /\ value \in DOMAIN output["total_ticket_received_count_modewise"].val
         /\ PresentZeroFilled(output["total_ticket_received_count_modewise"].val[value],
                              key,
                              Matching(input.dict, key, LAMBDA r : r.mode = value))
  /\ Returned("count_bot_wise_status_tickets") =>
       \A key \in Range(input.keys) :
         PresentZeroFilled(output["count_bot_wise_status_tickets"].val, key,
                           Matching(input.dict, key,
                                    LAMBDA r : r.status = input.status_value
                                               /\ r.mode \in Range(input.values)))

CountingOperations ==
  {"total_ticket_received_count", "count_tickets_for_unique_modes",
   "total_ticket_received_count_modewise", "count_bot_wise_status_tickets",
   "problem_reported_count_botwise"}

\* C4 as claimed: no counting operation ends in a raised error because a
\* requested key has no partition or a partition lacks a column it reads.
OrigC4_CountingNeverRaises ==
  \A name \in CountingOperations : Called(name) => output[name].exc = NoExc

\* C10 as claimed: the table of count_tickets_for_unique_modes has, for every
\* requested key with a partition and every mode of the mode list, the entry
\* 'total_{status}_ticket_{key}_{mode}' holding exactly the number of rows of
\* the key's partition with that status and that mode, and no other entry.
OrigC10_UniqueModesExactCounts ==
  Returned("count_tickets_for_unique_modes") =>
    LET table == output["count_tickets_for_unique_modes"].val
        keys == {k \in Range(input.keys) : Contains(input.dict, k)}
    IN /\ DOMAIN table =
            {StatusKey(input.status_value, k, m) : k \in keys, m \in Range(input.values)}
       /\ \A k \in keys, m \in Range(input.values) :
            table[StatusKey(input.status_value, k, m)] =
              CountWhere(input.dict.items[k],
                         LAMBDA r : r.status = input.status_value /\ r.mode = m)

\* C11 as claimed: count_bot_wise_status_tickets returns, for every requested
\* key with a partition, the number of rows of that partition whose status is
\* status_value and whose Mode is one of the modes of the mode list, each such
\* row counted once, also when the mode list repeats a mode.
OrigC11_BotWiseCountsEachRowOnce ==
  Returned("count_bot_wise_status_tickets") =>
    LET table == output["count_bot_wise_status_tickets"].val
    IN \A k \in Range(input.keys) :
         Contains(input.dict, k) =>
           /\ k \in DOMAIN table
           /\ table[k] = CountWhere(input.dict.items[k],
                                    LAMBDA r : r.status = input.status_value
                                               /\ r.mode \in Range(input.values))

\* C12 as claimed: the mode-wise table is the transpose of the flat table of
\* total_ticket_received_count: for every requested key k and value v,
\* modewise[v][k] is defined exactly when flat['{k}_{v}'] is defined, and the
\* two are equal.
OrigC12_ModewiseIsTranspose ==
  (Returned("total_ticket_received_count")
   /\ Returned("total_ticket_received_count_modewise")) =>
    LET flat == output["total_ticket_received_count"].val
        modewise == output["total_ticket_received_count_modewise"].val
    IN \A k \in Range(input.keys), v \in Range(input.values) :
         LET transposed == v \in DOMAIN modewise /\ k \in DOMAIN modewise[v]
         IN /\ transposed <=> FlatKey(k, v) \in DOMAIN flat
            /\ transposed => modewise[v][k] = flat[FlatKey(k, v)]

\* the (key, value) pairs a counting loop writes an entry for: the requested
\* keys that have a partition with the 'Mode' column, with every requested value
RequestedPairs ==
  {k \in Range(input.keys) :
     Contains(input.dict, k) /\ ModeCol \in input.dict.items[k].columns}
  \X Range(input.values)

\* C15 as claimed: in total_ticket_received_count and in
\* count_tickets_for_unique_modes, distinct requested (key, value) pairs always
\* produce distinct composite keys, also when bot names or modes contain the
\* '_' separator: the returned table has one entry per pair.
OrigC15_CompositeKeysDistinct ==
  /\ Returned("total_ticket_received_count") =>
       /\ \A p, q \in RequestedPairs :
            p # q => FlatKey(p[1], p[2]) # FlatKey(q[1], q[2])
       /\ Cardinality(DOMAIN output["total_ticket_received_count"].val)
            = Cardinality(RequestedPairs)
  /\ Returned("count_tickets_for_unique_modes") =>
       /\ \A p, q \in RequestedPairs :
            p # q => StatusKey(input.status_value, p[1], p[2])
                       # StatusKey(input.status_value, q[1], q[2])
       /\ Cardinality(DOMAIN output["count_tickets_for_unique_modes"].val)
            = Cardinality(RequestedPairs)

\* ------------------------------------------------------------------ cleaning
TimeCol == "Ticket Creation Time"
TagsCol == "Tags"

\* columns_to_remove: of its columns, the one the files of the model carry
ColumnsToRemove == {TagsCol}

\* imputation_values['Bot Name']
UnidentifiedBot == "Unidentified Bot Name"

\* pd.read_csv: a file without columns raises EmptyDataError
PdReadCsv(file) == IF file.columns = {} THEN Raise("EmptyDataError") ELSE Ok(file)

\* remove_columns: df.drop(columns=columns_to_remove, errors='ignore')
RemoveColumns(df, columns_to_remove) == [df EXCEPT !.columns = @ \ columns_to_remove]

\* split_timestamp: 'Created Time' is required; its date part, coerced, is the
\* new column 'Ticket Creation Date' (a raw row holds that part in date)
SplitTimestamp(df) ==
  IF CreatedCol \notin df.columns THEN Raise("KeyError")
  ELSE Ok([columns |-> df.columns \cup {DateCol, TimeCol},
           rows |-> [k \in DOMAIN df.rows |->
                       [df.rows[k] EXCEPT !.date = ToDatetime(@)]]])

\* astype(str), replace({'nan': NaN, '-': NaN}), fillna(replacement_value)
ImputeCell(v, replacement_value) == IF v \in {"nan", "-"} THEN replacement_value ELSE v

\* impute_null_values, for the column 'Bot Name': skipped when it is absent
ImputeNullValues(df) ==
  IF BotCol \notin df.columns THEN df
  ELSE [df EXCEPT !.rows = [k \in DOMAIN df.rows |->
                              [df.rows[k] EXCEPT !.bot = ImputeCell(@, UnidentifiedBot)]]]

\* ------------------------------------------------------------ the file loop
\* list(frame[column].unique()); KeyError when the column is absent
UniqueOf(df, column) ==
  IF column \notin df.columns THEN Raise("KeyError")
  ELSE Ok(Unique([k \in DOMAIN df.rows |-> Cell(df.rows[k], column)]))

\* The mutant of the bot key list: taken from the recent rows only.
BotNameListOfRecent(full_df, recent_df) == UniqueOf(recent_df, BotCol)

\* main.py line 144: the bot keys come from the full record set
BotNameList(full_df, recent_df) == UniqueOf(full_df, BotCol)

\* the first of the calls, in order, that raised; else Ok(val)
FirstRaised(calls, val) ==
  IF \E k \in DOMAIN calls : calls[k].exc # NoExc
  THEN LET first == CHOOSE k \in DOMAIN calls :
                      /\ calls[k].exc # NoExc
                      /\ \A j \in 1..(k - 1) : calls[j].exc = NoExc
       IN Raise(calls[first].exc)
  ELSE Ok(val)

\* main.py lines 148-192: the current-week tables as the variables hold them
\* at line 192 (the per-bot totals have replaced the per-mode status counts)
CurrentWeekTables(full_df, d, keys) ==
  LET modes == UniqueOf(full_df, ModeCol) IN
  IF modes.exc # NoExc THEN modes
  ELSE LET mode_list == modes.val
           received == TotalTicketReceivedCount(d, keys, mode_list, ModeCol)
           closed_modes == CountTicketsForUniqueModes(d, keys, mode_list, StatusCol, "Closed")
           modewise == TotalTicketReceivedCountModewise(d, keys, mode_list, ModeCol)
           open_modes == CountTicketsForUniqueModes(d, keys, mode_list, StatusCol, "Open")
           onhold_modes == CountTicketsForUniqueModes(d, keys, mode_list, StatusCol, "On Hold")
           closed == CountBotWiseStatusTickets(d, keys, mode_list, StatusCol, "Closed")
           open == CountBotWiseStatusTickets(d, keys, mode_list, StatusCol, "Open")
           onhold == CountBotWiseStatusTickets(d, keys, mode_list, StatusCol, "On Hold")
       IN FirstRaised(<<received, closed_modes, modewise, open_modes, onhold_modes,
                        closed, open, onhold>>,
                      [mode_list |-> mode_list,
                       total_ticket_received_count_dict |-> received.val,
                       total_ticket_received_count_dict_modewise |-> modewise.val,
                       total_closed_ticket_dict |-> closed.val,
                       total_open_ticket_dict |-> open.val,
                       total_onhold_ticket_dict |-> onhold.val])

\* create_excel_with_pivot_and_dicts, called with args: a call that does not
\* bind all four parameters raises TypeError; the pivot's bot names are read
\* from the first mode (StopIteration when there is none)
CreateExcelWithPivotAndDicts(args) ==
  IF Len(args) # CreateExcelArity THEN Raise("TypeError")
  ELSE IF DOMAIN args[1] = {} THEN Raise("StopIteration")
  ELSE Ok([pivot |-> args[1], sections |-> args[2]])

\* The mutant of lines 219-224: the failure of the report is swallowed and the
\* file is moved all the same.
MoveRegardless(call, file, saved, moved) ==
  [exc |-> NoExc,
   reports |-> IF call.exc = NoExc THEN saved \cup {file} ELSE saved,
   archive |-> moved \cup {file}]

\* main.py lines 219-224: the report is saved, then the file is moved; an
\* exception of the call leaves the function before shutil.move
ReportThenMove(call, file, saved, moved) ==
  IF call.exc # NoExc
  THEN [exc |-> call.exc, reports |-> saved, archive |-> moved]
  ELSE [exc |-> NoExc, reports |-> saved \cup {file}, archive |-> moved \cup {file}]

\* the files a folder may hold: an export with all its columns, an export
\* that lacks one of them, an empty file
FileColumns == {CreatedCol, BotCol, ModeCol, StatusCol, TagsCol}

RawBots == {"HR", "-"}

RawDates == {Midnight(EdgeDay), Midnight(EdgeDay - 1), Unparseable}

FileContents ==
  {EmptyDataFrame}
    \cup Frames(FileColumns, RawBots, Modes, Statuses, RawDates)
    \cup UNION {Frames(FileColumns \ {c}, {"HR"}, {"Email"}, {"Open"}, {Midnight(EdgeDay)}) :
                  c \in {CreatedCol, BotCol, ModeCol, StatusCol}}

Init ==
  /\ HarnessIdle
  /\ folder \in [1..NumFiles -> {"csv", "other"}]
  /\ file_index = 1 /\ pc = "loop" /\ exc = None /\ now = Midnight(Today)
  /\ raw = None /\ main_df = None /\ current_week_df = None /\ bot_name_list = None
  /\ splitted_df_dict = None /\ splitted_df_key_list = None /\ tables = <<>>
  /\ last_archive_df = None /\ splitted_df_dict_last = None
  /\ steps = [k \in 1..NumFiles |-> <<>>] /\ reports = {} /\ archive = {}

Step(name) == steps' = [steps EXCEPT ![file_index] = Append(@, name)]

\* an exception leaves process_csv_files_in_folder: nothing catches it
Propagate(name, e) ==
  /\ pc' = "raised"
  /\ exc' = [type |-> e, step |-> name, file |-> file_index]

\* the clock moves on while the run goes: time that passes is seen at the two
\* statements that read the clock, so it passes just before them
Tick ==
  /\ pc \in {"window", "archive_count"}
  /\ now < Midnight(Today) + MaxTicks
  /\ now' = now + 1
  /\ UNCHANGED <<hvars, folder, file_index, pc, exc, locals, steps, reports, archive>>

\* lines 230-231: an entry that is no CSV file is skipped
SkipNonCsv ==
  /\ pc = "loop" /\ file_index <= NumFiles /\ folder[file_index] = "other"
  /\ Step("skip")
  /\ file_index' = file_index + 1
  /\ UNCHANGED <<hvars, folder, pc, exc, now, locals, reports, archive>>

\* lines 130-134
ReadCsv ==
  /\ pc = "loop" /\ file_index <= NumFiles /\ folder[file_index] = "csv"
  /\ \E file \in FileContents :
       LET r == PdReadCsv(file)
       IN IF r.exc # NoExc
          THEN Propagate("read", r.exc) /\ UNCHANGED <<raw, steps>>
          ELSE raw' = r.val /\ Step("read") /\ pc' = "clean" /\ UNCHANGED exc
  /\ UNCHANGED <<hvars, folder, file_index, now, main_df, current_week_df, bot_name_list,
                 splitted_df_dict, splitted_df_key_list, tables, last_archive_df,
                 splitted_df_dict_last, reports, archive>>

\* lines 137-140
Clean ==
  /\ pc = "clean"
  /\ LET r == SplitTimestamp(RemoveColumns(raw, ColumnsToRemove))
     IN IF r.exc # NoExc
        THEN Propagate("clean", r.exc) /\ UNCHANGED <<main_df, steps>>
        ELSE main_df' = ImputeNullValues(r.val) /\ Step("clean") /\ pc' = "window"
             /\ UNCHANGED exc
  /\ UNCHANGED <<hvars, folder, file_index, now, raw, current_week_df, bot_name_list,
                 splitted_df_dict, splitted_df_key_list, tables, last_archive_df,
                 splitted_df_dict_last, reports, archive>>

\* line 143: current_date=None reads the clock
Window ==
  /\ pc = "window"
  /\ LET r == FilterLast8Days(main_df, now)
     IN main_df' = r.df /\ current_week_df' = r.ret
  /\ Step("window") /\ pc' = "partition"
  /\ UNCHANGED <<hvars, folder, file_index, exc, now, raw, bot_name_list,
                 splitted_df_dict, splitted_df_key_list, tables, last_archive_df,
                 splitted_df_dict_last, reports, archive>>

\* lines 144-146
Partition ==
  /\ pc = "partition"
  /\ LET names == BotNameList(main_df, current_week_df) IN
     IF names.exc # NoExc
     THEN Propagate("partition", names.exc)
          /\ UNCHANGED <<bot_name_list, splitted_df_dict, splitted_df_key_list, steps>>
     ELSE LET d == SplitDataframeByBotName(current_week_df, names.val)
              keys == KeyList(d)
          IN IF keys.exc # NoExc
             THEN Propagate("partition", keys.exc)
                  /\ UNCHANGED <<bot_name_list, splitted_df_dict, splitted_df_key_list, steps>>
             ELSE /\ bot_name_list' = names.val
                  /\ splitted_df_dict' = d
                  /\ splitted_df_key_list' = keys.val
                  /\ Step("partition") /\ pc' = "count" /\ UNCHANGED exc
  /\ UNCHANGED <<hvars, folder, file_index, now, raw, main_df, current_week_df, tables,
                 last_archive_df, splitted_df_dict_last, reports, archive>>

\* lines 148-192
Count ==
  /\ pc = "count"
  /\ LET r == CurrentWeekTables(main_df, splitted_df_dict, splitted_df_key_list)
     IN IF r.exc # NoExc
        THEN Propagate("count", r.exc) /\ UNCHANGED <<tables, steps>>
        ELSE tables' = r.val /\ Step("count") /\ pc' = "archive_count" /\ UNCHANGED exc
  /\ UNCHANGED <<hvars, folder, file_index, now, raw, main_df, current_week_df,
                 bot_name_list, splitted_df_dict, splitted_df_key_list, last_archive_df,
                 splitted_df_dict_last, reports, archive>>

\* lines 195-204: the archive window, again at the clock's time
ArchiveCount ==
  /\ pc = "archive_count"
  /\ LET f == FilterBeforeLast8Days(main_df, now)
         d == SplitDataframeByBotName(f.ret, bot_name_list)
         keys == KeyList(d)
         r == IF keys.exc # NoExc THEN keys
              ELSE CountBotWiseStatusTickets(d, keys.val, tables.mode_list, StatusCol, "Open")
     IN IF r.exc # NoExc
        THEN Propagate("archive_count", r.exc)
             /\ UNCHANGED <<main_df, last_archive_df, splitted_df_dict_last,
                            splitted_df_key_list, tables, steps>>
        ELSE /\ main_df' = f.df
             /\ last_archive_df' = f.ret
             /\ splitted_df_dict_last' = d
             /\ splitted_df_key_list' = keys.val
             /\ tables' = [total_archive_open_ticket_dict |-> r.val] @@ tables
             /\ Step("archive_count") /\ pc' = "report" /\ UNCHANGED exc
  /\ UNCHANGED <<hvars, folder, file_index, now, raw, current_week_df, bot_name_list,
                 splitted_df_dict, reports, archive>>

\* lines 208-213
DictMapping(t) ==
  [closed |-> t.total_closed_ticket_dict, open |-> t.total_open_ticket_dict,
   onhold |-> t.total_onhold_ticket_dict, archive_open |-> t.total_archive_open_ticket_dict]

\* lines 207-229: the call of line 219 passes CreateExcelArgs arguments
ReportAndMove ==
  /\ pc = "report"
  /\ LET args == SubSeq(<<tables.total_ticket_received_count_dict_modewise,
                          DictMapping(tables), "data/output/Report.xlsx", None>>,
                        1, CreateExcelArgs)
         r == ReportThenMove(CreateExcelWithPivotAndDicts(args), file_index,
                             reports, archive)
     IN /\ reports' = r.reports
        /\ archive' = r.archive
        /\ IF r.exc # NoExc
           THEN Propagate("report", r.exc) /\ UNCHANGED <<file_index, steps>>
           ELSE /\ steps' = [steps EXCEPT ![file_index] =
                               @ \o (IF file_index \in r.reports THEN <<"report">> ELSE <<>>)
                                 \o <<"move">>]
                /\ file_index' = file_index + 1
                /\ pc' = "loop" /\ UNCHANGED exc
  /\ UNCHANGED <<hvars, folder, now, locals>>

\* the folder is exhausted: the function returns
FolderDone ==
  /\ pc = "loop" /\ file_index > NumFiles
  /\ pc' = "returned"
  /\ UNCHANGED <<hvars, folder, file_index, exc, now, locals, steps, reports, archive>>

Next ==
  \/ Tick
  \/ SkipNonCsv
  \/ ReadCsv
  \/ Clean
  \/ Window
  \/ Partition
  \/ Count
  \/ ArchiveCount
  \/ ReportAndMove
  \/ FolderDone

Spec == Init /\ [][Next]_vars

\* ------------------------------------------------------ the file loop, claims
RunEnded == pc \in {"raised", "returned"}

\* the run ended in file f, whose processing raised
Failed(f) == pc = "raised" /\ exc.file = f

\* file f was read, and the exception that ended it is a file-level one: the
\* CSV is unreadable or empty (read), or lacks 'Created Time' (clean)
FailedAtFileLevel(f) == Failed(f) /\ exc.step \in {"read", "clean"}

\* C5 as claimed: after a file fails with a file-level error, every remaining
\* CSV file of the folder is still processed: when the run has ended, each CSV
\* file behind a failed one has been taken up.
OrigC5_LoopContinuesAfterFailure ==
  RunEnded =>
    \A f \in 1..NumFiles :
      FailedAtFileLevel(f) =>
        \A g \in (f + 1)..NumFiles : folder[g] = "csv" => steps[g] # <<>>

PipelineOrder ==
  <<"read", "clean", "window", "partition", "count", "archive_count", "report", "move">>

\* the iteration of file f is over
IterationEnded(f) == Failed(f) \/ file_index > f

\* file f is the file last read, and it is an export with all its columns and
\* at least one row
WellFormed(f) ==
  /\ folder[f] = "csv"
  /\ steps[f] # <<>> /\ Head(steps[f]) = "read"
  /\ \A g \in (f + 1)..NumFiles : steps[g] = <<>>
  /\ raw.columns = FileColumns
  /\ raw.rows # <<>>

\* C6 as claimed: a well-formed CSV file goes through cleaning, windowing,
\* partitioning, counting, the report and the move, in this order, and is in
\* the archive when its iteration ends.
OrigC6_WellFormedFileArchived ==
  \A f \in 1..NumFiles :
    (WellFormed(f) /\ IterationEnded(f)) =>
      (steps[f] = PipelineOrder /\ f \in archive)

\* C7: a file is in the archive only if its report was saved, and a file whose
\* processing raised is neither in the archive nor has a report.
ThmC7_ArchivedOnlyWithReport ==
  /\ archive \subseteq reports
  /\ \A f \in 1..NumFiles : Failed(f) => (f \notin archive /\ f \notin reports)

\* C7 witness: a file came as far as the report, the report call raised, and
\* the file is not in the archive.
WitC7_ArchivedOnlyWithReport ==
  \E f \in 1..NumFiles :
    /\ Failed(f) /\ exc.step = "report"
    /\ f \notin archive

\* the current-week tables of the file at hand are computed
Counted ==
  \/ pc \in {"archive_count", "report"}
  \/ pc = "raised" /\ exc.step \in {"archive_count", "report"}

\* and its archive table too
ArchiveCounted ==
  \/ pc = "report"
  \/ pc = "raised" /\ exc.step = "report"

\* the rows of bot b in a window that match
RowsOf(window, b, P(_)) == CountWhere(window, LAMBDA r : r.bot = b /\ P(r))

\* C9: every distinct Bot Name of the full record set has an entry in the
\* partition map of the recent rows, in the pivot table (under every mode) and
\* in every per-bot current-week and archive table, with 0 when it has no
\* matching row in that window.
ThmC9_EveryBotInEveryTable ==
  Counted =>
    \A b \in Range(UniqueOf(main_df, BotCol).val) :
      /\ Contains(splitted_df_dict, b)
      /\ tables.mode_list # <<>>
      /\ \A m \in Range(tables.mode_list) :
           /\ m \in DOMAIN tables.total_ticket_received_count_dict_modewise
           /\ PresentZeroFilled(tables.total_ticket_received_count_dict_modewise[m], b,
                                RowsOf(current_week_df, b, LAMBDA r : r.mode = m))
      /\ PresentZeroFilled(tables.total_closed_ticket_dict, b,
                           RowsOf(current_week_df, b, LAMBDA r : r.status = "Closed"))
      /\ PresentZeroFilled(tables.total_open_ticket_dict, b,
                           RowsOf(current_week_df, b, LAMBDA r : r.status = "Open"))
      /\ PresentZeroFilled(tables.total_onhold_ticket_dict, b,
                           RowsOf(current_week_df, b, LAMBDA r : r.status = "On Hold"))
      /\ ArchiveCounted =>
           /\ Contains(splitted_df_dict_last, b)
           /\ PresentZeroFilled(tables.total_archive_open_ticket_dict, b,
                                RowsOf(last_archive_df, b, LAMBDA r : r.status = "Open"))

\* C9 witness: a bot whose only rows are older than the window, with 0 in the
\* current-week tables, and a bot whose rows are all recent, with 0 in the
\* archive table.
WitC9_EveryBotInEveryTable ==
  /\ ArchiveCounted
  /\ \E b, c \in Range(UniqueOf(main_df, BotCol).val) :
       /\ RowsOf(current_week_df, b, LAMBDA r : TRUE) = 0
       /\ RowsOf(last_archive_df, b, LAMBDA r : r.status = "Open") > 0
       /\ tables.total_open_ticket_dict[b] = 0
       /\ tables.total_archive_open_ticket_dict[b] > 0
       /\ RowsOf(last_archive_df, c, LAMBDA r : TRUE) = 0
       /\ tables.total_archive_open_ticket_dict[c] = 0

\* C16 as claimed: within one file's pipeline run, where each of the two filter
\* calls reads the current time as its reference date, no row is both in the
\* current-week partition and in the archive partition, whatever time passes
\* between the two calls.
OrigC16_WindowsDisjointInOneRun ==
  ArchiveCounted => Ids(current_week_df) \cap Ids(last_archive_df) = {}

\* ------------------------------------ the pipeline's operations, run twice
\* main.py lines 197-204: the open tickets of the archive partitions
ArchiveOpenCount(d_last, mode_list) ==
  LET keys_last == KeyList(d_last) IN
  IF keys_last.exc # NoExc THEN keys_last
  ELSE CountBotWiseStatusTickets(d_last, keys_last.val, mode_list, StatusCol, "Open")

\* the outcome of a run: the caller's frame, the current-week partitions as
\* problem_reported_count_botwise left them, and the tables or the first error
RunOutcome(df, week, archive_open, problem) ==
  [df |-> df,
   dict |-> problem.dict,
   ret |-> FirstRaised(<<archive_open, problem>>,
                       [total_archive_open_ticket_dict |-> archive_open.val,
                        problem_reported_count |-> problem.val] @@ week)]

\* main.py lines 195-204 on the archive rows 'before', then
\* problem_reported_count_botwise on the current-week partitions d
ArchiveStage(before, names, d, keys, week) ==
  RunOutcome(before.df, week,
             ArchiveOpenCount(SplitDataframeByBotName(before.ret, names), week.mode_list),
             ProblemReportedCountBotwise(d, keys, week.mode_list, ModeCol))

\* main.py lines 148-192 have run, with outcome week
WeekStage(df, names, d, keys, week, current_date) ==
  IF week.exc # NoExc THEN [df |-> df, dict |-> d, ret |-> week]
  ELSE ArchiveStage(FilterBeforeLast8Days(df, current_date), names, d, keys, week.val)

\* main.py lines 146-192
CountStage(df, names, d, keys, current_date) ==
  IF keys.exc # NoExc THEN [df |-> df, dict |-> d, ret |-> keys]
  ELSE WeekStage(df, names, d, keys.val, CurrentWeekTables(df, d, keys.val), current_date)

\* main.py line 145
SplitStage(df, names, d, current_date) ==
  CountStage(df, names, d, KeyList(d), current_date)

\* main.py lines 144-145
PartitionStage(recent, names, current_date) ==
  IF names.exc # NoExc THEN [df |-> recent.df, dict |-> None, ret |-> names]
  ELSE SplitStage(recent.df, names.val,
                  SplitDataframeByBotName(recent.ret, names.val), current_date)

\* main.py line 143
WindowStage(recent, current_date) ==
  PartitionStage(recent, BotNameList(recent.df, recent.ret), current_date)

\* main.py lines 142-204 with one reference date, followed by
\* problem_reported_count_botwise on the current-week partitions: the caller's
\* frame after the run, the partitions after the run, and the count tables
PipelineTables(df, current_date) ==
  WindowStage(FilterLast8Days(df, current_date), current_date)

\* The mutant of a run: the partitions are views of the caller's frame, so the
\* lower-casing of problem_reported_count_botwise reaches the frame itself.
PipelineRunOnViews(df, current_date) ==
  LET r == PipelineTables(df, current_date)
  IN [df |-> LowerColumn(r.df, ModeCol), dict |-> r.dict, ret |-> r.ret]

\* one run, as its caller sees it: df[mask] in split_dataframe_by_bot_name
\* copies the rows, so the lower-cased partitions stay in the run's own map
PipelineRun(df, current_date) ==
  LET r == PipelineTables(df, current_date)
  IN [df |-> r.df, dict |-> r.dict, ret |-> r.ret]

\* a ticket file's rows on both sides of the cutoff, with a bad date string
InitTwice ==
  /\ input \in [df : Frames(AllColumns, Bots, Modes, Statuses,
                            {Midnight(EdgeDay - 1), Midnight(EdgeDay), Unparseable}),
                current_date : RefDates]
  /\ output = <<>>
  /\ PipelineIdle

FirstRun ==
  /\ output = <<>>
  /\ LET r == PipelineRun(input.df, input.current_date)
     IN /\ input' = [input EXCEPT !.df = r.df]
        /\ output' = ("first_run" :> r.ret) @@ ("splitted_df_dict" :> r.dict)
  /\ UNCHANGED pvars

\* the second run starts from the frame the first run left
SecondRun ==
  /\ Called("first_run") /\ ~Called("second_run")
  /\ LET r == PipelineRun(input.df, input.current_date)
     IN /\ input' = [input EXCEPT !.df = r.df]
        /\ output' = ("second_run" :> r.ret) @@ ("splitted_df_dict" :> r.dict) @@ output
  /\ UNCHANGED pvars

NextTwice == FirstRun \/ SecondRun

SpecTwice == InitTwice /\ [][NextTwice]_vars

\* C13: the window filter, the partitioner and the counting operations, run
\* twice with the same reference date on the same input, yield identical count
\* tables: the second run, starting from the record set as the first run left
\* it, returns what the first run returned.
ThmC13_SecondRunSameTables ==
  Called("second_run") => output["second_run"] = output["first_run"]

\* C13 witness: both runs returned count tables, for a record set with a recent
\* row, counted in a partition whose 'Mode' column the run lower-cased, and a
\* row whose date string the first run coerced to NaT.
WitC13_SecondRunSameTables ==
  /\ Returned("second_run")
  /\ \E b \in DOMAIN output["splitted_df_dict"].items :
       \E r \in Range(output["splitted_df_dict"].items[b].rows) : r.mode = "email"
  /\ \E k \in DOMAIN output["first_run"].val.total_ticket_received_count_dict :
       output["first_run"].val.total_ticket_received_count_dict[k] > 0
  /\ \E v \in DOMAIN output["first_run"].val.problem_reported_count :
       \E b \in DOMAIN output["first_run"].val.problem_reported_count[v] :
         output["first_run"].val.problem_reported_count[v][b] > 0
  /\ NullDateIds(input.df) # {}

====
